---------------------------- MODULE Spec2Model ----------------------------
(***************************************************************************)
(* A model of src/src/App.jsx (gambit-monthly): the loader that fetches a  *)
(* team's arena tournaments and, one tournament at a time, their results   *)
(* and games; the per-tournament game tally; and the aggregation that      *)
(* folds result rows and tallies into one record per player, finalizes and *)
(* sorts them.                                                             *)
(*                                                                         *)
(* Three specifications share the module:                                  *)
(*   Spec      the loader (the effect, loadTournaments, loadStats);        *)
(*   SpecTally the forEach of fetchTournamentGames, one game per step;     *)
(*   SpecAgg   the fold of aggregatedStats, one result row per step.       *)
(* Values the code reads from JSON are drawn from small sets.  A string    *)
(* that JavaScript treats as falsy (absent, undefined, "") is "".  An      *)
(* optional number is <<>> (absent) or <<n>>.                              *)
(***************************************************************************)
EXTENDS Integers, Sequences, FiniteSets, TLC

VARIABLES
    \* ---- App: query parameters (lines 81-95)
    teamId, nameFilter, monthFilter, includeGames,
    \* ---- App: React state (lines 107-114)
    tournaments, resultsByTournament, gamesByTournament,
    loadingTournaments, loadingStats, progress, error, autoLoad,
    \* ---- the effect's run (lines 298-313) and loadStats' locals (lines 272-280)
    pc,           \* where run() is: "mount", the await it is suspended at, "done"
    ids, i, nextResults, nextGames,
    net,          \* every fetchText call and its outcome, in order
    \* ---- fetchTournamentGames (lines 234-261)
    games,        \* the parsed game list
    gi,           \* number of games the forEach has visited
    stats,        \* the tally under construction
    skipped,      \* whether the game visited last returned at line 240
    \* ---- aggregatedStats (lines 129-182)
    aggGames,     \* per filtered tournament visited: gamesByTournament[t.id] || {}
    aggResults,   \* per filtered tournament visited: the rows of
                  \* resultsByTournament[t.id] that results.forEach has visited
    aggregate,    \* the object `aggregate`: its keys in creation order, its entries
    aggWeight,    \* `weight` of the row visited last (line 143)
    aggFolded,    \* whether the row visited last passed line 137 and was folded
    aggDone,      \* whether the memo has returned (line 181)
    aggOut        \* the value of aggregatedStats once it has

paramVars == <<teamId, nameFilter, monthFilter, includeGames>>
reactVars == <<tournaments, resultsByTournament, gamesByTournament,
               loadingTournaments, loadingStats, progress, error, autoLoad>>
loadVars == <<paramVars, reactVars, pc, ids, i, nextResults, nextGames, net>>
tallyVars == <<games, gi, stats, skipped>>
aggVars == <<aggGames, aggResults, aggregate, aggWeight, aggFolded, aggDone, aggOut>>

vars == <<loadVars, tallyVars, aggVars>>

-----------------------------------------------------------------------------
(* Bounds *)

MaxTournaments == 2
MaxGames == 2
MaxAggTournaments == 2
MaxAggRows == 3

-----------------------------------------------------------------------------
(* JavaScript helpers *)

\* a || b || ... over strings: the first truthy (non-empty) candidate, else "".
RECURSIVE FirstTruthy(_)
FirstTruthy(cands) ==
    IF cands = <<>> THEN ""
    ELSE IF Head(cands) # "" THEN Head(cands)
    ELSE FirstTruthy(Tail(cands))

\* a ?? b ?? ... over optional numbers: the first that is present, else <<>>.
RECURSIVE FirstPresent(_)
FirstPresent(cands) ==
    IF cands = <<>> THEN <<>>
    ELSE IF Head(cands) # <<>> THEN Head(cands)
    ELSE FirstPresent(Tail(cands))

\* An object used as a map: a function whose domain is its own keys.
EmptyObject == [k \in {} |-> 0]

\* Keys every object literal inherits from Object.prototype with a truthy,
\* mutable value ("constructor" stands for them: toString, valueOf, ...).
ObjectPrototypeKeys == { "constructor" }

\* obj[key] is truthy: an own entry, or an inherited property
hasTruthy(obj, key) == key \in DOMAIN obj \/ key \in ObjectPrototypeKeys

Put(obj, key, val) ==
    [k \in DOMAIN obj \cup {key} |-> IF k = key THEN val ELSE obj[k]]

-----------------------------------------------------------------------------
(* fetchTournamentGames: the game tally *)

ZeroTally == [w |-> 0, d |-> 0, l |-> 0, games |-> 0]

\* game.players.<side>.user as <<name, id>>
GameUsers ==
    { <<"Bob", "bob">>, <<"Eve", "eve">>, <<"constructor", "constructor">>,
      <<"", "42">>, <<"", "">> }

\* game.winner: "white", "black", or absent
Winners == { "white", "black", "" }

GameSet == [white : GameUsers, black : GameUsers, winner : Winners]

RECURSIVE SeqsUpTo(_, _)
SeqsUpTo(S, n) ==
    IF n = 0 THEN { <<>> }
    ELSE LET shorter == SeqsUpTo(S, n - 1)
         IN  shorter \cup { Append(s, x) : s \in { t \in shorter : Len(t) = n - 1 }, x \in S }

\* line 238 / 239
gameSide(user) == FirstTruthy(<<user[1], user[2]>>)

\* if (!stats[k]) stats[k] = {w: 0, d: 0, l: 0, games: 0}
ensureTally(st, k) == IF hasTruthy(st, k) THEN st ELSE Put(st, k, ZeroTally)

\* stats[k].<field> += 1; without an own entry stats[k] is the inherited
\* object, and the write lands on it, not in the tally
bump(st, k, field) ==
    IF k \in DOMAIN st THEN [st EXCEPT ![k][field] = @ + 1] ELSE st

\* line 240: the guard that skips a game
gameIsSkipped_Both(white, black) == white = "" /\ black = ""

gameIsSkipped(white, black) == white = "" \/ black = ""

\* lines 249-258
tallyOutcome(st, white, black, winner) ==
    IF winner = "white" THEN bump(bump(st, white, "w"), black, "l")
    ELSE IF winner = "black" THEN bump(bump(st, black, "w"), white, "l")
    ELSE bump(bump(st, white, "d"), black, "d")

\* lines 237-259: the body of games.forEach
tallyGame(st, game) ==
    LET white == gameSide(game.white)
        black == gameSide(game.black)
    IN  IF gameIsSkipped(white, black) THEN st
        ELSE LET s1 == ensureTally(st, white)
                 s2 == ensureTally(s1, black)
                 s3 == bump(s2, white, "games")
                 s4 == bump(s3, black, "games")
             IN  tallyOutcome(s4, white, black, game.winner)

\* lines 235-261: the tally of a whole game list
RECURSIVE buildTally(_, _)
buildTally(st, gs) ==
    IF gs = <<>> THEN st ELSE buildTally(tallyGame(st, Head(gs)), Tail(gs))

TallyIdle ==
    /\ games = <<>>
    /\ gi = 0
    /\ stats = EmptyObject
    /\ skipped = FALSE

TallyInit ==
    /\ games \in SeqsUpTo(GameSet, MaxGames)
    /\ gi = 0
    /\ stats = EmptyObject
    /\ skipped = FALSE

\* one iteration of games.forEach
TallyStep ==
    /\ gi < Len(games)
    /\ LET game == games[gi + 1]
       IN  /\ stats' = tallyGame(stats, game)
           /\ skipped' = gameIsSkipped(gameSide(game.white), gameSide(game.black))
    /\ gi' = gi + 1
    /\ UNCHANGED games

-----------------------------------------------------------------------------
(* aggregatedStats: the fold, the finalizer and the sort *)

\* A result row as the code reads it:
\*   ident  <<username, name, user.name, user.id>>       (line 41)
\*   score  <<score, points>>                            (line 138)
\*   perf   <<performance, perf, performanceRating>>     (lines 139-141)
ResultRow(username, score, performance) ==
    [ident |-> <<username, "", "", "">>,
     score |-> <<score, <<>>>>,
     perf  |-> <<performance, <<>>, <<>>>>]

RowSet ==
    { ResultRow("Bob", <<s>>, <<10>>) : s \in {-1, 0, 2} }
    \cup { ResultRow("Bob", <<2>>, <<20>>),
           ResultRow("42", <<2>>, <<10>>),
           ResultRow("constructor", <<2>>, <<10>>),
           ResultRow("", <<2>>, <<20>>) }
    \cup { [ident |-> <<"", "", "", "42">>,
            score |-> << <<>>, <<2>> >>,
            perf  |-> << <<>>, <<>>, <<>> >>] }

Game(white, black, winner) == [white |-> white, black |-> black, winner |-> winner]

\* gamesByTournament[t.id] || {}: no tally at all, or the tally of a game list
TallySet ==
    { EmptyObject,
      buildTally(EmptyObject, << Game(<<"Bob", "bob">>, <<"Eve", "eve">>, "white") >>),
      buildTally(EmptyObject, << Game(<<"Bob", "bob">>, <<"", "42">>, ""),
                                 Game(<<"Bob", "bob">>, <<"", "42">>, "black") >>) }

\* lines 40-41
getUserName(entry) == FirstTruthy(entry.ident)

\* lines 37-38: a finite number, or 0 for whatever Number() does not make finite
safeNumber(value) == IF value = <<>> THEN 0 ELSE value[1]

\* line 143: stats.games > 0 ? stats.games : points || 1
\* (points || 1 is points unless points is 0)
rowWeight(st, points) ==
    IF st.games > 0 THEN st.games ELSE IF points # 0 THEN points ELSE 1

\* lines 70-78 with the losses left out
sumStats_NoLosses(target, update) ==
    [target EXCEPT !.points = @ + update.points,
                   !.w = @ + update.w,
                   !.d = @ + update.d,
                   !.tournaments = @ + update.tournaments,
                   !.perfSum = @ + update.perfSum,
                   !.perfWeight = @ + update.perfWeight]

\* lines 70-78
sumStats(target, update) ==
    [target EXCEPT !.points = @ + update.points,
                   !.w = @ + update.w,
                   !.d = @ + update.d,
                   !.l = @ + update.l,
                   !.tournaments = @ + update.tournaments,
                   !.perfSum = @ + update.perfSum,
                   !.perfWeight = @ + update.perfWeight]

\* lines 146-155
NewEntry(name) ==
    [name |-> name, points |-> 0, w |-> 0, d |-> 0, l |-> 0,
     tournaments |-> 0, perfSum |-> 0, perfWeight |-> 0]

EmptyAggregate == [keys |-> <<>>, at |-> EmptyObject]

\* lines 138-143: what the callback computes from one row
rowPoints(player) == safeNumber(FirstPresent(player.score))
rowPerformance(player) == safeNumber(FirstPresent(player.perf))
\* games[name] || {w: 0, d: 0, l: 0, games: 0}.  For an inherited key
\* games[name] is the inherited object: its counters are undefined, which
\* `> 0` treats as it treats 0, and what is summed from them lands on the
\* inherited object (see foldRow), so the zero tally stands for it.
rowStats(gamesOfT, name) ==
    IF name \in DOMAIN gamesOfT THEN gamesOfT[name] ELSE ZeroTally

\* lines 135-167: the body of results.forEach for one row
foldRow(agg, gamesOfT, player) ==
    LET name == getUserName(player)
        points == rowPoints(player)
        performance == rowPerformance(player)
        st == rowStats(gamesOfT, name)
        weight == rowWeight(st, points)
        known == hasTruthy(agg.at, name)
        entry == IF name \in DOMAIN agg.at THEN agg.at[name] ELSE NewEntry(name)
        update == [points |-> points, w |-> st.w, d |-> st.d, l |-> st.l,
                   tournaments |-> 1, perfSum |-> performance * weight,
                   perfWeight |-> weight]
    IN  IF name = "" THEN agg
        ELSE IF known /\ name \notin DOMAIN agg.at
        THEN agg    \* sumStats adds to the inherited object: no own entry
        ELSE [keys |-> IF known THEN agg.keys ELSE Append(agg.keys, name),
              at   |-> Put(agg.at, name, sumStats(entry, update))]

\* The array index a property key is, or -1: a key that is the canonical
\* decimal form of an integer in 0 .. 2^32 - 2 is an integer key.
arrayIndex(key) == CASE key = "42" -> 42 [] OTHER -> -1

RECURSIVE ascending(_)
ascending(S) ==
    IF S = {} THEN <<>>
    ELSE LET k == CHOOSE x \in S : \A y \in S : arrayIndex(x) <= arrayIndex(y)
         IN  <<k>> \o ascending(S \ {k})

\* line 170, Object.values(aggregate): own properties in property order, the
\* integer keys first in ascending order, then the others in creation order
objectValues(obj) ==
    LET ints == ascending({ k \in DOMAIN obj.at : arrayIndex(k) >= 0 })
        strs == SelectSeq(obj.keys, LAMBDA k : arrayIndex(k) < 0)
        order == ints \o strs
    IN  [n \in 1..Len(order) |-> obj.at[order[n]]]

\* A quotient n / d with d > 0, kept exact
Ratio(n, d) == [num |-> n, den |-> d]
RatioLess(a, b) == a.num * b.den < b.num * a.den
RatioEq(a, b) == a.num * b.den = b.num * a.den

\* lines 171-180: the finalizer
finalize(entry) ==
    LET g == entry.w + entry.d + entry.l
    IN  [name |-> entry.name, points |-> entry.points,
         w |-> entry.w, d |-> entry.d, l |-> entry.l,
         tournaments |-> entry.tournaments,
         perfSum |-> entry.perfSum, perfWeight |-> entry.perfWeight,
         games |-> g,
         winRate |-> IF g > 0 THEN Ratio(entry.w * 100, g) ELSE Ratio(0, 1),
         performance |-> IF entry.perfWeight > 0
                         THEN Ratio(entry.perfSum, entry.perfWeight)
                         ELSE Ratio(0, 1)]

\* line 181: the comparator is negative when a sorts before b
sortsBefore(a, b) ==
    IF b.points - a.points # 0 THEN b.points - a.points < 0
    ELSE RatioLess(b.winRate, a.winRate)

\* Array.prototype.sort is stable: each element goes after the sorted ones
\* it does not sort before
RECURSIVE insertInto(_, _)
insertInto(sorted, x) ==
    IF sorted = <<>> THEN <<x>>
    ELSE IF sortsBefore(x, sorted[Len(sorted)])
         THEN Append(insertInto(SubSeq(sorted, 1, Len(sorted) - 1), x), sorted[Len(sorted)])
         ELSE Append(sorted, x)

RECURSIVE stableSort(_)
stableSort(arr) ==
    IF arr = <<>> THEN <<>>
    ELSE insertInto(stableSort(SubSeq(arr, 1, Len(arr) - 1)), arr[Len(arr)])

\* lines 170-181: the rows the table shows
outputOf(agg) ==
    LET values == objectValues(agg)
    IN  stableSort([n \in 1..Len(values) |-> finalize(values[n])])

AggIdle ==
    /\ aggGames = <<>>
    /\ aggResults = <<>>
    /\ aggregate = EmptyAggregate
    /\ aggWeight = 0
    /\ aggFolded = FALSE
    /\ aggDone = FALSE
    /\ aggOut = <<>>

AggInit == AggIdle

RECURSIVE rowsVisited(_)
rowsVisited(res) ==
    IF res = <<>> THEN 0 ELSE Len(Head(res)) + rowsVisited(Tail(res))

\* line 131: filteredTournaments.forEach reaches the next tournament
AggBeginTournament ==
    /\ ~aggDone
    /\ Len(aggGames) < MaxAggTournaments
    /\ \E g \in TallySet : aggGames' = Append(aggGames, g)
    /\ aggResults' = Append(aggResults, <<>>)
    /\ aggFolded' = FALSE
    /\ UNCHANGED <<aggregate, aggWeight, aggDone, aggOut>>

\* line 135: results.forEach visits the next row of the tournament
AggFoldRow ==
    /\ ~aggDone
    /\ Len(aggGames) > 0
    /\ rowsVisited(aggResults) < MaxAggRows
    /\ \E player \in RowSet :
          LET t == Len(aggGames)
              name == getUserName(player)
          IN  /\ aggResults' = [aggResults EXCEPT ![t] = Append(@, player)]
              /\ aggregate' = foldRow(aggregate, aggGames[t], player)
              /\ aggFolded' = (name # "")
              /\ aggWeight' = IF name = "" THEN aggWeight
                              ELSE rowWeight(rowStats(aggGames[t], name), rowPoints(player))
    /\ UNCHANGED <<aggGames, aggDone, aggOut>>

\* lines 170-181: both forEach loops are over; finalize, sort, return
AggFinish ==
    /\ ~aggDone
    /\ aggDone' = TRUE
    /\ aggOut' = outputOf(aggregate)
    /\ UNCHANGED <<aggGames, aggResults, aggregate, aggWeight, aggFolded>>

-----------------------------------------------------------------------------
(* The loader: the effect, loadTournaments, loadStats *)

\* Strings the filters read are sequences of characters.
Mon == <<"M", "o", "n">>
Fri == <<"F", "r", "i">>

\* String.prototype.toLowerCase, on the characters the model uses
lowerChar(c) == CASE c = "M" -> "m" [] c = "F" -> "f" [] OTHER -> c
toLowerCase(str) == [k \in 1..Len(str) |-> lowerChar(str[k])]

\* String.prototype.includes
includes(str, sub) ==
    \E k \in 0..(Len(str) - Len(sub)) : SubSeq(str, k + 1, k + Len(sub)) = sub

\* The tournaments the team's arena feed can list, as line 202-208 maps them.
\* startsAt counts days from 2024-01-01 (the code counts milliseconds).
TournamentSet ==
    { [id |-> "t1", fullName |-> Mon, startsAt |-> 8],
      [id |-> "t2", fullName |-> Fri, startsAt |-> 12],
      [id |-> "t3", fullName |-> Mon, startsAt |-> 15],
      [id |-> "t4", fullName |-> Mon, startsAt |-> 36] }

\* lines 11-16, on the model's days
formatMonthKey(day) == IF day < 31 THEN "2024-01" ELSE "2024-02"

\* feeds list each tournament once
TournamentFeeds ==
    { feed \in SeqsUpTo(TournamentSet, MaxTournaments) :
        \A a, b \in 1..Len(feed) : a # b => feed[a].id # feed[b].id }

\* line 209: data.sort((a, b) => b.startsAt - a.startsAt), a stable sort
RECURSIVE insertByStart(_, _)
insertByStart(sorted, t) ==
    IF sorted = <<>> THEN <<t>>
    ELSE IF sorted[Len(sorted)].startsAt - t.startsAt < 0
         THEN Append(insertByStart(SubSeq(sorted, 1, Len(sorted) - 1), t), sorted[Len(sorted)])
         ELSE Append(sorted, t)

RECURSIVE sortByStartDesc(_)
sortByStartDesc(data) ==
    IF data = <<>> THEN <<>>
    ELSE insertByStart(sortByStartDesc(SubSeq(data, 1, Len(data) - 1)), data[Len(data)])

\* lines 116-122
filterTournaments(list) ==
    LET byMonth(t) == monthFilter = "" \/ formatMonthKey(t.startsAt) = monthFilter
        byName(t) == nameFilter = <<>>
                     \/ includes(toLowerCase(t.fullName), toLowerCase(nameFilter))
    IN  SelectSeq(list, LAMBDA t : byMonth(t) /\ byName(t))

\* lines 124-127
filteredTournaments == filterTournaments(tournaments)

\* what /results can answer (line 223) and what /games can answer (line 234)
ResultBodies ==
    { <<>>,
      << ResultRow("Bob", <<2>>, <<10>>) >>,
      << ResultRow("Bob", <<0>>, <<20>>), ResultRow("42", <<2>>, <<10>>) >> }

GameBodies ==
    { <<>>,
      << Game(<<"Bob", "bob">>, <<"Eve", "eve">>, "white") >>,
      << Game(<<"Bob", "bob">>, <<"", "42">>, ""),
         Game(<<"", "">>, <<"", "42">>, "black") >> }

\* err.message of what fetchText, fetch or JSON.parse throws
ErrorMessages == { "", "500 Internal Server Error - oops" }

Request(kind, id) == [ev |-> "req", kind |-> kind, id |-> id, ok |-> TRUE, body |-> <<>>]
Response(kind, id, ok, body) == [ev |-> "res", kind |-> kind, id |-> id, ok |-> ok, body |-> body]

\* line 213
tournamentsError(message) ==
    IF message # "" THEN message ELSE "Failed to load tournaments."

\* line 292 without the fallback
statsError_NoFallback(message) == message

\* line 292: err.message || "Failed to load stats."
statsError(message) ==
    IF message # "" THEN message ELSE "Failed to load stats."

\* line 287 reporting the index instead of the count
progressAfter_Index(k, total) == [done |-> k, total |-> total]

\* line 287: after the tournament at index k, setProgress({done: k + 1, total})
progressAfter(k, total) == [done |-> k + 1, total |-> total]

\* the maps committed as each tournament finishes
committedAfter_EachTournament(current, next, last) == next

\* lines 279-290: the maps are set once, after the loop
committedAfter(current, next, last) == IF last THEN next ELSE current

LoadInit ==
    /\ teamId \in { "", "gambit" }
    /\ \E monthParam \in { "", "2024-01" } :
          /\ monthFilter = (IF monthParam # "" THEN monthParam ELSE "2024-02")
          /\ autoLoad = (teamId # "" /\ monthParam # "")
    /\ nameFilter \in { <<>>, <<"m", "O">> }
    /\ includeGames \in BOOLEAN
    /\ tournaments = <<>>
    /\ resultsByTournament = EmptyObject
    /\ gamesByTournament = EmptyObject
    /\ loadingTournaments = FALSE
    /\ loadingStats = FALSE
    /\ progress = [done |-> 0, total |-> 0]
    /\ error = ""
    /\ pc = "mount"
    /\ ids = <<>>
    /\ i = 0
    /\ nextResults = EmptyObject
    /\ nextGames = EmptyObject
    /\ net = <<>>

LoadIdle ==
    /\ teamId = ""
    /\ monthFilter = "2024-02"
    /\ autoLoad = FALSE
    /\ nameFilter = <<>>
    /\ includeGames = TRUE
    /\ tournaments = <<>>
    /\ resultsByTournament = EmptyObject
    /\ gamesByTournament = EmptyObject
    /\ loadingTournaments = FALSE
    /\ loadingStats = FALSE
    /\ progress = [done |-> 0, total |-> 0]
    /\ error = ""
    /\ pc = "mount"
    /\ ids = <<>>
    /\ i = 0
    /\ nextResults = EmptyObject
    /\ nextGames = EmptyObject
    /\ net = <<>>

\* lines 298-301 and 184-201: the effect runs, loadTournaments starts and
\* suspends at its fetch
EffectRun ==
    /\ pc = "mount"
    /\ autoLoad
    /\ IF teamId = ""
       THEN /\ error' = "Team ID is required."
            /\ autoLoad' = FALSE
            /\ pc' = "done"
            /\ UNCHANGED <<loadingTournaments, resultsByTournament, gamesByTournament, net>>
       ELSE /\ error' = ""
            /\ loadingTournaments' = TRUE
            /\ resultsByTournament' = EmptyObject
            /\ gamesByTournament' = EmptyObject
            /\ net' = Append(net, Request("arena", teamId))
            /\ pc' = "awaitTournaments"
            /\ UNCHANGED autoLoad
    /\ UNCHANGED <<paramVars, tournaments, loadingStats, progress,
                   ids, i, nextResults, nextGames>>

\* lines 201-211, 216, 302-305 and 264-281: the feed arrives; the list is
\* sorted and stored; run() filters it and either reports that nothing
\* matches or enters loadStats, which suspends at the first results fetch
TournamentsLoaded ==
    /\ pc = "awaitTournaments"
    /\ \E feed \in TournamentFeeds :
          LET sorted == sortByStartDesc(feed)
              filtered == filterTournaments(sorted)
              seen == Append(net, Response("arena", teamId, TRUE, feed))
          IN  /\ tournaments' = sorted
              /\ loadingTournaments' = FALSE
              /\ IF Len(filtered) = 0
                 THEN /\ error' = "No tournaments match the filters."
                      /\ autoLoad' = FALSE
                      /\ pc' = "done"
                      /\ net' = seen
                      /\ UNCHANGED <<loadingStats, progress, ids, i, nextResults, nextGames>>
                 ELSE /\ error' = ""
                      /\ loadingStats' = TRUE
                      /\ ids' = [k \in 1..Len(filtered) |-> filtered[k].id]
                      /\ progress' = [done |-> 0, total |-> Len(filtered)]
                      /\ nextResults' = EmptyObject
                      /\ nextGames' = EmptyObject
                      /\ i' = 0
                      /\ net' = Append(seen, Request("results", filtered[1].id))
                      /\ pc' = "awaitResults"
                      /\ UNCHANGED autoLoad
    /\ UNCHANGED <<paramVars, resultsByTournament, gamesByTournament>>

\* lines 212-217 and 302, 310: the feed's fetch or parse throws
TournamentsFailed ==
    /\ pc = "awaitTournaments"
    /\ \E message \in ErrorMessages :
          /\ error' = tournamentsError(message)
          /\ net' = Append(net, Response("arena", teamId, FALSE, <<>>))
    /\ loadingTournaments' = FALSE
    /\ autoLoad' = FALSE
    /\ pc' = "done"
    /\ UNCHANGED <<paramVars, tournaments, resultsByTournament, gamesByTournament,
                   loadingStats, progress, ids, i, nextResults, nextGames>>

\* lines 287-290, 294 and 310: the tournament at index i has its data; report
\* progress, then fetch the next tournament's results or leave the loop,
\* commit both maps, and return to run().  The setters of lines 289-290 are
\* called back to back in one continuation with no await between them, and
\* React renders both updates together: one step.
TournamentFetched(seen, results, tallies) ==
    LET last == (i + 1 >= Len(ids))
    IN  /\ nextResults' = results
        /\ nextGames' = tallies
        /\ progress' = progressAfter(i, Len(ids))
        /\ i' = i + 1
        /\ resultsByTournament' = committedAfter(resultsByTournament, results, last)
        /\ gamesByTournament' = committedAfter(gamesByTournament, tallies, last)
        /\ IF last
           THEN /\ loadingStats' = FALSE
                /\ autoLoad' = FALSE
                /\ pc' = "done"
                /\ net' = seen
           ELSE /\ net' = Append(seen, Request("results", ids[i + 2]))
                /\ pc' = "awaitResults"
                /\ UNCHANGED <<loadingStats, autoLoad>>
        /\ UNCHANGED <<paramVars, tournaments, loadingTournaments, error, ids>>

\* lines 281-286: the results of ids[i] arrive; with games wanted, suspend
\* at the games fetch
ResultsLoaded ==
    /\ pc = "awaitResults"
    /\ \E body \in ResultBodies :
          LET id == ids[i + 1]
              seen == Append(net, Response("results", id, TRUE, body))
              results == Put(nextResults, id, body)
          IN  IF includeGames
              THEN /\ nextResults' = results
                   /\ net' = Append(seen, Request("games", id))
                   /\ pc' = "awaitGames"
                   /\ UNCHANGED <<paramVars, reactVars, ids, i, nextGames>>
              ELSE TournamentFetched(seen, results, nextGames)

\* lines 285-287 and 233-261: the games of ids[i] arrive and are tallied
GamesLoaded ==
    /\ pc = "awaitGames"
    /\ \E body \in GameBodies :
          LET id == ids[i + 1]
              seen == Append(net, Response("games", id, TRUE, body))
          IN  TournamentFetched(seen, nextResults,
                                Put(nextGames, id, buildTally(EmptyObject, body)))

\* lines 291-295 and 310: a fetch of the pass throws
StatsFailed(kind) ==
    /\ \E message \in ErrorMessages : error' = statsError(message)
    /\ net' = Append(net, Response(kind, ids[i + 1], FALSE, <<>>))
    /\ loadingStats' = FALSE
    /\ autoLoad' = FALSE
    /\ pc' = "done"
    /\ UNCHANGED <<paramVars, tournaments, resultsByTournament, gamesByTournament,
                   loadingTournaments, progress, ids, i, nextResults, nextGames>>

ResultsFailed == pc = "awaitResults" /\ StatsFailed("results")

GamesFailed == pc = "awaitGames" /\ StatsFailed("games")

-----------------------------------------------------------------------------
(* Specifications *)

Init == LoadInit /\ TallyIdle /\ AggIdle

Next ==
    \/ EffectRun /\ UNCHANGED <<tallyVars, aggVars>>
    \/ TournamentsLoaded /\ UNCHANGED <<tallyVars, aggVars>>
    \/ TournamentsFailed /\ UNCHANGED <<tallyVars, aggVars>>
    \/ ResultsLoaded /\ UNCHANGED <<tallyVars, aggVars>>
    \/ ResultsFailed /\ UNCHANGED <<tallyVars, aggVars>>
    \/ GamesLoaded /\ UNCHANGED <<tallyVars, aggVars>>
    \/ GamesFailed /\ UNCHANGED <<tallyVars, aggVars>>

Spec == Init /\ [][Next]_vars

InitTally == TallyInit /\ AggIdle /\ LoadIdle

NextTally == TallyStep /\ UNCHANGED <<loadVars, aggVars>>

SpecTally == InitTally /\ [][NextTally]_vars

InitAgg == AggInit /\ TallyIdle /\ LoadIdle

NextAgg ==
    \/ AggBeginTournament /\ UNCHANGED <<loadVars, tallyVars>>
    \/ AggFoldRow /\ UNCHANGED <<loadVars, tallyVars>>
    \/ AggFinish /\ UNCHANGED <<loadVars, tallyVars>>

SpecAgg == InitAgg /\ [][NextAgg]_vars

-----------------------------------------------------------------------------
(* Claims about the loader *)

StatsKinds == { "results", "games" }

\* the ids of the pass, from the stored list and the filters
passIds == [k \in 1..Len(filteredTournaments) |-> filteredTournaments[k].id]

\* the fetches a whole pass over these ids makes, in order
RECURSIVE ExpectedFetches(_)
ExpectedFetches(idSeq) ==
    IF idSeq = <<>> THEN <<>>
    ELSE (IF includeGames
          THEN << <<"results", Head(idSeq)>>, <<"games", Head(idSeq)>> >>
          ELSE << <<"results", Head(idSeq)>> >>)
         \o ExpectedFetches(Tail(idSeq))

\* the results and games fetches issued so far, in order
statsRequests ==
    LET reqs == SelectSeq(net, LAMBDA e : e.ev = "req" /\ e.kind \in StatsKinds)
    IN  [k \in 1..Len(reqs) |-> <<reqs[k].kind, reqs[k].id>>]

IsPrefix(a, b) == Len(a) <= Len(b) /\ a = SubSeq(b, 1, Len(a))

\* the tournaments whose last fetch has succeeded
tournamentsFetched ==
    Cardinality({ k \in 1..Len(net) :
                    /\ net[k].ev = "res"
                    /\ net[k].ok
                    /\ net[k].kind = (IF includeGames THEN "games" ELSE "results") })

statsFailures ==
    { k \in 1..Len(net) : net[k].ev = "res" /\ ~net[k].ok /\ net[k].kind \in StatsKinds }

\* what the service answered for a tournament
Served(kind, id) ==
    LET k == CHOOSE x \in 1..Len(net) :
                 net[x].ev = "res" /\ net[x].ok /\ net[x].kind = kind /\ net[x].id = id
    IN  net[k].body

WasServed(kind, id) ==
    \E x \in 1..Len(net) :
        net[x].ev = "res" /\ net[x].ok /\ net[x].kind = kind /\ net[x].id = id

passIdSet == { passIds[k] : k \in 1..Len(passIds) }

NothingCommitted ==
    resultsByTournament = EmptyObject /\ gamesByTournament = EmptyObject

WholePassCommitted ==
    /\ statsFailures = {}
    /\ DOMAIN resultsByTournament = passIdSet
    /\ \A id \in passIdSet :
          /\ WasServed("results", id)
          /\ resultsByTournament[id] = Served("results", id)
    /\ IF includeGames
       THEN /\ DOMAIN gamesByTournament = passIdSet
            /\ \A id \in passIdSet :
                  /\ WasServed("games", id)
                  /\ gamesByTournament[id] = buildTally(EmptyObject, Served("games", id))
       ELSE gamesByTournament = EmptyObject

FetchFails ==
    /\ Len(net') = Len(net) + 1
    /\ net'[Len(net')].ev = "res"
    /\ ~net'[Len(net')].ok
    /\ net'[Len(net')].kind \in StatsKinds

\* C1: a pass is all or nothing.  A step in which a results or games fetch
\* fails leaves resultsByTournament and gamesByTournament as they were, and
\* in every state the two maps hold either nothing or, for every tournament
\* of the pass, the results and the tally the service answered.
C1_AllOrNothing ==
    /\ [](NothingCommitted \/ WholePassCommitted)
    /\ [][FetchFails => UNCHANGED <<resultsByTournament, gamesByTournament>>]_vars

\* the pass failed at its second tournament, after the first one's rows and
\* tally had been fetched, and nothing is committed
C1_Witness ==
    /\ pc = "done"
    /\ statsFailures # {}
    /\ Len(ids) = 2
    /\ i = 1
    /\ nextResults[ids[1]] # <<>>
    /\ includeGames /\ nextGames[ids[1]] # EmptyObject
    /\ NothingCommitted

\* C2: the fetches of a pass are made one at a time in filtered order, per
\* tournament the results and then the games, each answered before the next
\* is made; and progress counts the tournaments fetched out of those of the
\* pass, so done grows by one per tournament and never exceeds total.
C2_SequentialFetchAndProgress ==
    /\ IsPrefix(statsRequests, ExpectedFetches(passIds))
    /\ \A k \in 1..Len(net) :
          /\ net[k].ev = "req" =>
                \/ k = Len(net)
                \/ /\ net[k + 1].ev = "res"
                   /\ net[k + 1].kind = net[k].kind
                   /\ net[k + 1].id = net[k].id
          /\ net[k].ev = "res" => k > 1 /\ net[k - 1].ev = "req"
    /\ statsRequests # <<>> =>
          /\ progress.total = Len(passIds)
          /\ progress.done = tournamentsFetched
          /\ progress.done <= progress.total

\* a pass over two tournaments with games ended with both fetched
C2_Witness ==
    /\ pc = "done"
    /\ includeGames
    /\ statsFailures = {}
    /\ progress = [done |-> 2, total |-> 2]
    /\ Len(statsRequests) = 4

\* C3: a failed results or games fetch is the last fetch of the pass, and
\* the pass has then ended with a non-empty error and loadingStats false.
C3_FailureEndsPass ==
    \A k \in statsFailures :
        /\ k = Len(net)
        /\ pc = "done"
        /\ error # ""
        /\ loadingStats = FALSE

\* the games fetch of the first of two tournaments failed with an empty
\* message
C3_Witness ==
    /\ statsFailures # {}
    /\ net[Len(net)].kind = "games"
    /\ Len(ids) = 2
    /\ i = 0
    /\ error = "Failed to load stats."
    /\ Len(statsRequests) < Len(ExpectedFetches(passIds))

-----------------------------------------------------------------------------
(* Claims about the game tally *)

RECURSIVE SumOver(_, _, _)
SumOver(st, keys, field) ==
    IF keys = {} THEN 0
    ELSE LET k == CHOOSE x \in keys : TRUE
         IN  st[k][field] + SumOver(st, keys \ {k}, field)

TotalOf(st, field) == SumOver(st, DOMAIN st, field)

\* C7: in the tally of every game list the wins of all players sum to the
\* losses of all players and the draws of all players sum to an even
\* number, also when one player is white and black.
C7_WinsEqualLossesDrawsEven ==
    gi = Len(games) =>
        /\ TotalOf(stats, "w") = TotalOf(stats, "l")
        /\ TotalOf(stats, "d") % 2 = 0

\* C8: a game whose white or black identity cannot be resolved leaves the
\* whole tally as it was: no entry is created and no counter changes.
C8_SkippedGameLeavesTally ==
    [][ (gi' = gi + 1 /\ (gameSide(games[gi + 1].white) = ""
                            \/ gameSide(games[gi + 1].black) = ""))
        => stats' = stats ]_vars

\* a game with one side resolved and the other missing was skipped after
\* another game had been tallied
C8_Witness ==
    /\ skipped
    /\ gi > 0
    /\ stats # EmptyObject
    /\ gameSide(games[gi].white) # gameSide(games[gi].black)

-----------------------------------------------------------------------------
(* Claims about the aggregation *)

\* the rows results.forEach has visited, as <<tournament, index>> places
Places ==
    UNION { { <<t, n>> : n \in 1..Len(aggResults[t]) } : t \in 1..Len(aggResults) }

RowAt(pl) == aggResults[pl[1]][pl[2]]

\* the places whose row resolves to this player
PlacesOf(name) == { pl \in Places : getUserName(RowAt(pl)) = name }

RECURSIVE SumPlaces(_, _)
SumPlaces(S, f) ==
    IF S = {} THEN 0
    ELSE LET x == CHOOSE y \in S : TRUE
         IN  f[x] + SumPlaces(S \ {x}, f)

\* a player's w + d + l in tournament t's tally (0 without an entry)
TallyGamesIn(t, name) ==
    LET st == rowStats(aggGames[t], name) IN st.w + st.d + st.l

\* the weight as the specification words it
ClaimedWeight(st, points) ==
    IF st.games > 0 THEN st.games ELSE IF points > 0 THEN points ELSE 1

LastRow == aggResults[Len(aggResults)][Len(aggResults[Len(aggResults)])]

\* C4: the weight of every folded row is the tally's gamesPlayed if that is
\* positive, otherwise points if points > 0, otherwise 1; so it is positive.
C4_WeightAsSpecified ==
    aggFolded =>
        LET name == getUserName(LastRow)
            st == rowStats(aggGames[Len(aggGames)], name)
        IN  /\ aggWeight = ClaimedWeight(st, rowPoints(LastRow))
            /\ aggWeight > 0

\* C5: every output row's performanceRating is 0 when the cumulative weight
\* is 0, and otherwise is performanceWeightedSum / performanceWeightTotal and
\* lies between the least and the greatest performance folded for the player.
C5_PerformanceIsBoundedMean ==
    aggDone =>
        \A n \in 1..Len(aggOut) :
            LET r == aggOut[n]
                perfs == { rowPerformance(RowAt(pl)) : pl \in PlacesOf(r.name) }
            IN  /\ r.perfWeight = 0 => r.performance.num = 0
                /\ r.perfWeight # 0 =>
                      /\ r.performance.num * r.perfWeight = r.perfSum * r.performance.den
                      /\ \A v \in perfs :
                            (\A u \in perfs : v <= u) => v * r.performance.den <= r.performance.num
                      /\ \A v \in perfs :
                            (\A u \in perfs : u <= v) => r.performance.num <= v * r.performance.den

\* C6 as claimed: a player's w + d + l in the output is the sum, over the
\* tournaments folded, of the player's tally in each, whatever the rows are.
C6_GamesEqualTallySum ==
    aggDone =>
        \A n \in 1..Len(aggOut) :
            LET r == aggOut[n]
                perT == [t \in 1..Len(aggGames) |-> TallyGamesIn(t, r.name)]
            IN  r.w + r.d + r.l = SumPlaces(1..Len(aggGames), perT)

\* C6 as amended: a player's w + d + l in the output is the sum, over the
\* result rows that resolve to the player, of the player's tally in the
\* row's tournament: a tally counts once per row of the player, and not at
\* all in a tournament that has no row for the player.
C6_GamesEqualTallyPerRow ==
    aggDone =>
        \A n \in 1..Len(aggOut) :
            LET r == aggOut[n]
                perRow == [pl \in Places |-> TallyGamesIn(pl[1], r.name)]
            IN  /\ r.w + r.d + r.l = SumPlaces(PlacesOf(r.name), perRow)
                /\ r.games = r.w + r.d + r.l

\* a player was folded from two tournaments with games in both, and from one
\* row per tournament
C6_Witness ==
    /\ aggDone
    /\ Len(aggGames) = 2
    /\ \E n \in 1..Len(aggOut) :
          /\ aggOut[n].l > 0
          /\ aggOut[n].w > 0
          /\ \A t \in 1..2 :
                /\ TallyGamesIn(t, aggOut[n].name) > 0
                /\ Cardinality({ pl \in PlacesOf(aggOut[n].name) : pl[1] = t }) = 1

\* the place of the first row folded for a player
FirstPlace(name) ==
    CHOOSE pl \in PlacesOf(name) :
        \A q \in PlacesOf(name) : pl[1] < q[1] \/ (pl[1] = q[1] /\ pl[2] <= q[2])

PlaceBefore(p, q) == p[1] < q[1] \/ (p[1] = q[1] /\ p[2] < q[2])

\* C9: the output is sorted descending by points, then descending by
\* winRate, and rows equal on both are in the order in which their players
\* were first folded, whatever the player identities are.
C9_SortedStableByFoldOrder ==
    aggDone =>
        \A n, m \in 1..Len(aggOut) :
            n < m =>
                LET a == aggOut[n]
                    b == aggOut[m]
                IN  \/ a.points > b.points
                    \/ a.points = b.points /\ RatioLess(b.winRate, a.winRate)
                    \/ /\ a.points = b.points
                       /\ RatioEq(a.winRate, b.winRate)
                       /\ PlaceBefore(FirstPlace(a.name), FirstPlace(b.name))

\* C10: with game statistics disabled (no tournament has a tally) every
\* folded row adds its points and one tournament, weighs points if
\* points > 0 and otherwise 1, and leaves wins, draws and losses at 0.
C10_NoTallyRowsStillCount ==
    (aggFolded /\ \A t \in 1..Len(aggGames) : aggGames[t] = EmptyObject) =>
        LET name == getUserName(LastRow)
            e == IF name \in DOMAIN aggregate.at THEN aggregate.at[name] ELSE NewEntry(name)
            pts == [pl \in Places |-> rowPoints(RowAt(pl))]
            wgt == [pl \in Places |->
                       IF rowPoints(RowAt(pl)) > 0 THEN rowPoints(RowAt(pl)) ELSE 1]
        IN  /\ e.points = SumPlaces(PlacesOf(name), pts)
            /\ e.tournaments = Cardinality(PlacesOf(name))
            /\ e.perfWeight = SumPlaces(PlacesOf(name), wgt)
            /\ e.w = 0 /\ e.d = 0 /\ e.l = 0

=============================================================================
